---- MODULE Spec2Model ----
(***************************************************************************)
(* Trip ledger routes (src/routes/trip.routes.js): create, list, stats,    *)
(* get, update, delete and restore of trips by admin and driver callers,   *)
(* over a store of trip documents.  The file holds the router twice; the   *)
(* model follows the first copy (lines 1-296), the one module.exports      *)
(* hands out.                                                              *)
(***************************************************************************)
EXTENDS Integers, Sequences, FiniteSets, TLC

(***************************************************************************)
(* Bounds of the model.                                                    *)
(***************************************************************************)
\* number of trip documents ever created
MaxTrips == 1
\* last value of the wall clock
MaxClock == 2
\* longest free-text fuelAmount enumerated
MaxLen == 3
\* number of trip documents in the stores the aggregation is run on
MaxStatTrips == 2

VARIABLES
  trips,         \* Trip collection: _id -> document
  nextId,        \* number of trip ids handed out so far
  drivers,       \* ids of the Driver collection
  vehicles,      \* ids of the Vehicle collection
  maintenances,  \* Maintenance collection
  ads,           \* Ad collection
  clock,         \* what new Date() returns
  req,           \* the request served last, none once the clock has moved on
  res            \* its response

vars == <<trips, nextId, drivers, vehicles, maintenances, ads, clock, req, res>>

(***************************************************************************)
(* JavaScript values of the loosely typed trip fields (tripAmount,         *)
(* fuelAmount, tolls, ...): undefined, a number (NaN included) or a string *)
(* (a sequence of one-character strings).                                  *)
(***************************************************************************)
Undefined == [t |-> "undefined"]
NaN == [t |-> "nan"]
Num(n) == [t |-> "num", n |-> n]
Str(s) == [t |-> "str", s |-> s]

Digits == {"0", "1", "2", "3", "4", "5", "6", "7", "8", "9"}

DigitVal(c) ==
  CASE c = "0" -> 0 [] c = "1" -> 1 [] c = "2" -> 2 [] c = "3" -> 3
    [] c = "4" -> 4 [] c = "5" -> 5 [] c = "6" -> 6 [] c = "7" -> 7
    [] c = "8" -> 8 [] c = "9" -> 9

\* o.f of a document or request body: undefined when the property is absent
Field(o, f) == IF f \in DOMAIN o THEN o[f] ELSE Undefined

\* ToBoolean: undefined, 0, NaN and "" are falsy
Truthy(v) ==
  CASE v.t = "undefined" -> FALSE
    [] v.t = "nan" -> FALSE
    [] v.t = "num" -> v.n # 0
    [] v.t = "str" -> v.s # <<>>

\* v || 0
OrZero(v) == IF Truthy(v) THEN v ELSE Num(0)

RECURSIVE TrimLeft(_)
TrimLeft(s) ==
  IF s # <<>> /\ Head(s) = " " THEN TrimLeft(Tail(s)) ELSE s

RECURSIVE TrimRight(_)
TrimRight(s) ==
  IF s # <<>> /\ s[Len(s)] = " " THEN TrimRight(SubSeq(s, 1, Len(s) - 1)) ELSE s

RECURSIVE DecimalValue(_)
DecimalValue(s) ==
  IF s = <<>> THEN 0
  ELSE 10 * DecimalValue(SubSeq(s, 1, Len(s) - 1)) + DigitVal(s[Len(s)])

AllDigits(s) == s # <<>> /\ \A i \in 1..Len(s) : s[i] \in Digits

\* Number(string): white space is trimmed, the empty string is 0, a signed
\* decimal integer literal is its value, anything else is NaN
StringToNumber(s) ==
  LET t == TrimRight(TrimLeft(s)) IN
    IF t = <<>> THEN Num(0)
    ELSE IF AllDigits(t) THEN Num(DecimalValue(t))
    ELSE IF Head(t) = "-" /\ AllDigits(Tail(t)) THEN Num(0 - DecimalValue(Tail(t)))
    ELSE IF Head(t) = "+" /\ AllDigits(Tail(t)) THEN Num(DecimalValue(Tail(t)))
    ELSE NaN

\* Number(v)
Number(v) ==
  CASE v.t = "undefined" -> NaN
    [] v.t = "nan" -> NaN
    [] v.t = "num" -> v
    [] v.t = "str" -> StringToNumber(v.s)

isNaN(v) == v.t = "nan"

\* a + b and a - b on numbers
Add(a, b) == IF isNaN(a) \/ isNaN(b) THEN NaN ELSE Num(a.n + b.n)
Sub(a, b) == IF isNaN(a) \/ isNaN(b) THEN NaN ELSE Num(a.n - b.n)

\* str.match(/\d+/g): the maximal runs of digits, left to right; the empty
\* sequence stands for the null that match returns when there is none
RECURSIVE ScanDigits(_, _, _, _)
ScanDigits(s, i, cur, acc) ==
  IF i > Len(s) THEN (IF cur = <<>> THEN acc ELSE Append(acc, cur))
  ELSE IF s[i] \in Digits THEN ScanDigits(s, i + 1, Append(cur, s[i]), acc)
  ELSE ScanDigits(s, i + 1, <<>>, IF cur = <<>> THEN acc ELSE Append(acc, cur))

\* str.match(/\d/g): every digit on its own
MatchDigits_Each(s) ==
  LET ds == SelectSeq(s, LAMBDA c : c \in Digits) IN [i \in 1..Len(ds) |-> <<ds[i]>>]

MatchDigits(s) == ScanDigits(s, 1, <<>>, <<>>)

\* matches.map(Number).reduce((a,b)=>a+b,0)
RECURSIVE SumMatches(_)
SumMatches(ms) ==
  IF ms = <<>> THEN Num(0)
  ELSE Add(SumMatches(SubSeq(ms, 1, Len(ms) - 1)), StringToNumber(ms[Len(ms)]))

\* the fuel of one trip
Fuel(trip) ==
  LET fuelAmount == Field(trip, "fuelAmount") IN
    IF Truthy(fuelAmount)
    THEN IF ~isNaN(Number(fuelAmount))
         THEN Number(fuelAmount)
         ELSE LET matches == MatchDigits(fuelAmount.s) IN
                IF matches # <<>> THEN SumMatches(matches) ELSE Num(0)
    ELSE Num(0)

(***************************************************************************)
(* Callers (req.user, set by authMiddleware) and the ids requests name.    *)
(***************************************************************************)
Users ==
  { [id |-> "a1", role |-> "admin"],
    [id |-> "d1", role |-> "driver"] }

TripIds == 1..MaxTrips

\* null of a date field and of an id field
NullDate == 0
Null == "null"

EmptyObj == [f \in {} |-> Undefined]

\* String(x) of an id-valued property: "undefined" when it is absent
String(o, f) == IF f \in DOMAIN o THEN o[f] ELSE "undefined"

\* truthiness of an id-valued property (data.driverId, data.vehicleId)
Has(o, f) == f \in DOMAIN o /\ o[f] # "" /\ o[f] # Null

\* { ...a, ...b } and Object.assign(a, b)
Assign(a, b) ==
  [f \in DOMAIN a \cup DOMAIN b |-> IF f \in DOMAIN b THEN b[f] ELSE a[f]]

\* delete o.f for every f in fs
DeleteProps(o, fs) == [f \in DOMAIN o \ fs |-> o[f]]

\* trip.isDriverDeleted as a condition
IsDriverDeleted(trip) == "isDriverDeleted" \in DOMAIN trip /\ trip.isDriverDeleted = TRUE

(***************************************************************************)
(* utils/tripHelpers attachRefs and the Trip model.                        *)
(***************************************************************************)
\* attachRefs throws when a reference it is given does not resolve
AttachRefsThrows(payload) ==
  \/ Has(payload, "driverId") /\ payload.driverId \notin drivers
  \/ Has(payload, "vehicleId") /\ payload.vehicleId \notin vehicles

\* the snapshot attachRefs merges into the payload
AttachRefs(payload) ==
  LET d == IF Has(payload, "driverId")
           THEN [driverName |-> <<"name", payload.driverId>>,
                 driverNumber |-> <<"phone", payload.driverId>>]
           ELSE EmptyObj
      v == IF Has(payload, "vehicleId")
           THEN [vehicleType |-> <<"type", payload.vehicleId>>]
           ELSE EmptyObj
  IN Assign(Assign(payload, d), v)

\* new Trip(data): the schema defaults of the lifecycle fields, then data
NewTrip(data) ==
  Assign([isDriverDeleted |-> FALSE, driverDeletedAt |-> NullDate,
          driverDeletedBy |-> Null], data)

(***************************************************************************)
(* GET /trips and GET /trips/stats: the match and the aggregation.         *)
(***************************************************************************)
\* a match that forgets the isDriverDeleted condition
Match_NoFilter(u, trip) ==
  u.role = "driver" => String(trip, "driverId") = u.id

\* the documents Trip.find(match) returns to caller u
Match(u, trip) ==
  /\ ~IsDriverDeleted(trip)
  /\ u.role = "driver" => String(trip, "driverId") = u.id

\* expenses that leave the tolls out
Expenses_NoTolls(trip) ==
  Add(Add(Fuel(trip), Number(OrZero(Field(trip, "parkingCharges")))),
      Number(OrZero(Field(trip, "driverBeta"))))

\* the per-trip expenses
Expenses(trip) ==
  Add(Add(Add(Fuel(trip), Number(OrZero(Field(trip, "tolls")))),
          Number(OrZero(Field(trip, "parkingCharges")))),
      Number(OrZero(Field(trip, "driverBeta"))))

\* trips.forEach: the running totals over the documents with ids in ids
RECURSIVE TripTotals(_, _)
TripTotals(ts, ids) ==
  IF ids = {} THEN [amount |-> Num(0), expenses |-> Num(0), profit |-> Num(0)]
  ELSE LET i == CHOOSE j \in ids : TRUE
           rest == TripTotals(ts, ids \ {i})
           tripAmt == Number(OrZero(Field(ts[i], "tripAmount")))
           expenses == Expenses(ts[i])
           profit == Sub(tripAmt, expenses)
       IN [amount |-> Add(rest.amount, tripAmt),
           expenses |-> Add(rest.expenses, expenses),
           profit |-> Add(rest.profit, profit)]

\* records.reduce((sum, r) => sum + Number(r[f] || 0), 0)
RECURSIVE SumField(_, _)
SumField(records, f) ==
  IF records = <<>> THEN Num(0)
  ELSE Add(SumField(SubSeq(records, 1, Len(records) - 1), f),
           Number(OrZero(Field(records[Len(records)], f))))

\* a maintenance query that forgets the driver condition
MaintenanceFor_All(u, ms) == ms

\* Maintenance.find(maintenanceMatch)
MaintenanceFor(u, ms) ==
  SelectSeq(ms, LAMBDA m : u.role = "driver" => String(m, "driver") = u.id)

\* the body of the stats response
ComputeStats(u, ts, ms, as) ==
  LET ids == {i \in DOMAIN ts : Match(u, ts[i])}
      t == TripTotals(ts, ids)
      totalMaintenance == SumField(MaintenanceFor(u, ms), "maintenanceCost")
      totalAds == SumField(as, "amount")
      totalExpenses == Add(Add(t.expenses, totalMaintenance), totalAds)
  IN [totalTrips |-> Cardinality(ids),
      totalTripAmount |-> t.amount,
      totalExpenses |-> totalExpenses,
      totalMaintenance |-> totalMaintenance,
      totalAds |-> totalAds,
      totalProfit |-> Sub(t.amount, totalExpenses)]

(***************************************************************************)
(* Requests and responses.                                                 *)
(***************************************************************************)
Request(op, u, id, body, flag) ==
  [op |-> op, user |-> u, id |-> id, body |-> body, flag |-> flag]

\* res.status(status).json(...): the message, the trip documents and the
\* stats the json carries
Reply(status, message, rows, stats) ==
  [status |-> status, message |-> message, rows |-> rows, stats |-> stats]

Row(id, doc) == [_id |-> id, doc |-> doc]

\* trip.save() of the document with this id
Save(id, doc) == [trips EXCEPT ![id] = doc]

\* a removal that leaves the document in the store
Remove_Keep(id) == trips

\* Trip.findByIdAndDelete(id)
Remove(id) == [i \in DOMAIN trips \ {id} |-> trips[i]]

\* no ownership test at all
Foreign_Never(u, trip) == FALSE

\* the ownership test of the driver branches
Foreign(u, trip) == u.role = "driver" /\ String(trip, "driverId") # u.id

(***************************************************************************)
(* POST /trips                                                             *)
(***************************************************************************)
\* the data handed to new Trip, or the throw of attachRefs
CreateData(u, body) ==
  LET data == Assign(body, [createdByRole |-> u.role, createdBy |-> u.id])
      own == Assign(data, [driverId |-> u.id])
  IN IF u.role = "admin"
     THEN IF Has(data, "driverId") \/ Has(data, "vehicleId")
          THEN [threw |-> AttachRefsThrows(data), data |-> AttachRefs(data)]
          ELSE [threw |-> FALSE, data |-> data]
     ELSE IF Has(own, "vehicleId")
          THEN [threw |-> AttachRefsThrows(own), data |-> AttachRefs(own)]
          ELSE [threw |-> FALSE, data |-> own]

PostTrip(u, body) ==
  /\ nextId < MaxTrips
  /\ req' = Request("create", u, 0, body, FALSE)
  /\ LET r == CreateData(u, body)
         id == nextId + 1
     IN IF r.threw
        THEN /\ res' = Reply(400, "NotFound", {}, EmptyObj)
             /\ UNCHANGED <<trips, nextId>>
        ELSE /\ trips' = (id :> NewTrip(r.data)) @@ trips
             /\ nextId' = id
             /\ res' = Reply(201, "", {Row(id, NewTrip(r.data))}, EmptyObj)
  /\ UNCHANGED <<drivers, vehicles, maintenances, ads, clock>>

(***************************************************************************)
(* GET /trips, GET /trips/stats, GET /trips/:id                            *)
(***************************************************************************)
ListTrips(u) ==
  /\ req' = Request("list", u, 0, EmptyObj, FALSE)
  /\ res' = Reply(200, "", {Row(i, trips[i]) : i \in {j \in DOMAIN trips : Match(u, trips[j])}},
                  EmptyObj)
  /\ UNCHANGED <<trips, nextId, drivers, vehicles, maintenances, ads, clock>>

GetStats(u) ==
  /\ req' = Request("stats", u, 0, EmptyObj, FALSE)
  /\ res' = Reply(200, "", {}, ComputeStats(u, trips, maintenances, ads))
  /\ UNCHANGED <<trips, nextId, drivers, vehicles, maintenances, ads, clock>>

\* a get-by-id that shows a driver their soft-deleted trip without being asked
GetTrip_NoHide(u, id, includeDeleted) ==
  /\ req' = Request("get", u, id, EmptyObj, includeDeleted)
  /\ res' = IF id \notin DOMAIN trips
            THEN Reply(404, "Trip not found", {}, EmptyObj)
            ELSE IF Foreign(u, trips[id])
            THEN Reply(403, "Forbidden", {}, EmptyObj)
            ELSE Reply(200, "", {Row(id, trips[id])}, EmptyObj)
  /\ UNCHANGED <<trips, nextId, drivers, vehicles, maintenances, ads, clock>>

GetTrip(u, id, includeDeleted) ==
  /\ req' = Request("get", u, id, EmptyObj, includeDeleted)
  /\ res' = IF id \notin DOMAIN trips
            THEN Reply(404, "Trip not found", {}, EmptyObj)
            ELSE IF Foreign(u, trips[id])
            THEN Reply(403, "Forbidden", {}, EmptyObj)
            ELSE IF u.role = "driver" /\ IsDriverDeleted(trips[id]) /\ ~includeDeleted
            THEN Reply(404, "Trip not found", {}, EmptyObj)
            ELSE Reply(200, "", {Row(id, trips[id])}, EmptyObj)
  /\ UNCHANGED <<trips, nextId, drivers, vehicles, maintenances, ads, clock>>

(***************************************************************************)
(* PUT /trips/:id                                                          *)
(***************************************************************************)
\* a strip list that lets the authorship fields through
Stripped_NoAuthorship ==
  {"isDriverDeleted", "driverDeletedAt", "driverDeletedBy"}

\* the properties a driver may not set through an update
Stripped ==
  {"isDriverDeleted", "driverDeletedAt", "driverDeletedBy", "createdBy", "createdByRole"}

\* an update that assigns the body although a reference did not resolve
UpdateResult_IgnoreThrow(u, trip, body) ==
  [threw |-> FALSE,
   trip |-> Assign(trip, IF u.role = "driver" THEN DeleteProps(body, Stripped) ELSE body)]

\* the document after Object.assign, or the throw of attachRefs
UpdateResult(u, trip, body) ==
  LET refs == Has(body, "driverId") \/ Has(body, "vehicleId")
      updates == IF refs THEN AttachRefs(body) ELSE body
      kept == IF u.role = "driver" THEN DeleteProps(updates, Stripped) ELSE updates
  IN [threw |-> refs /\ AttachRefsThrows(body),
      trip |-> IF refs /\ AttachRefsThrows(body) THEN trip ELSE Assign(trip, kept)]

PutTrip(u, id, body) ==
  /\ req' = Request("update", u, id, body, FALSE)
  /\ IF id \notin DOMAIN trips
     THEN /\ res' = Reply(404, "Trip not found", {}, EmptyObj)
          /\ UNCHANGED trips
     ELSE IF Foreign(u, trips[id])
     THEN /\ res' = Reply(403, "Forbidden", {}, EmptyObj)
          /\ UNCHANGED trips
     ELSE LET r == UpdateResult(u, trips[id], body)
          IN IF r.threw
             THEN /\ res' = Reply(400, "NotFound", {}, EmptyObj)
                  /\ UNCHANGED trips
             ELSE /\ trips' = Save(id, r.trip)
                  /\ res' = Reply(200, "", {Row(id, r.trip)}, EmptyObj)
  /\ UNCHANGED <<nextId, drivers, vehicles, maintenances, ads, clock>>

(***************************************************************************)
(* DELETE /trips/:id                                                       *)
(***************************************************************************)
\* a driver branch that stamps on every call
DriverDelete_Restamp(u, trip, now) ==
  Assign(trip, [isDriverDeleted |-> TRUE, driverDeletedAt |-> now,
                driverDeletedBy |-> u.id])

\* the driver branch: the document after the delete of its owner
DriverDelete(u, trip, now) ==
  IF ~IsDriverDeleted(trip)
  THEN Assign(trip, [isDriverDeleted |-> TRUE, driverDeletedAt |-> now,
                     driverDeletedBy |-> u.id])
  ELSE trip

\* an admin branch that signs the deletion
AdminSoftDelete_SetsBy(trip, now) ==
  IF ~IsDriverDeleted(trip)
  THEN Assign(trip, [isDriverDeleted |-> TRUE, driverDeletedAt |-> now,
                     driverDeletedBy |-> "a1"])
  ELSE trip

\* the admin branch without hard=true
AdminSoftDelete(trip, now) ==
  IF ~IsDriverDeleted(trip)
  THEN Assign(trip, [isDriverDeleted |-> TRUE, driverDeletedAt |-> now])
  ELSE trip

\* hard=true honoured for every role
IsHardDelete_AnyRole(u, hard) == hard

\* whether the request removes the document
IsHardDelete(u, hard) == u.role # "driver" /\ hard

DeleteTrip(u, id, hard) ==
  /\ req' = Request("delete", u, id, EmptyObj, hard)
  /\ IF id \notin DOMAIN trips
     THEN /\ res' = Reply(404, "Trip not found", {}, EmptyObj)
          /\ UNCHANGED trips
     ELSE IF Foreign(u, trips[id])
     THEN /\ res' = Reply(403, "Forbidden", {}, EmptyObj)
          /\ UNCHANGED trips
     ELSE IF IsHardDelete(u, hard)
     THEN /\ trips' = Remove(id)
          /\ res' = Reply(200, "Trip permanently deleted by admin", {}, EmptyObj)
     ELSE IF u.role = "driver"
     THEN /\ trips' = Save(id, DriverDelete(u, trips[id], clock))
          /\ res' = Reply(200, "Trip marked deleted by driver",
                          {Row(id, DriverDelete(u, trips[id], clock))}, EmptyObj)
     ELSE /\ trips' = Save(id, AdminSoftDelete(trips[id], clock))
          /\ res' = Reply(200, "Trip soft-deleted by admin",
                          {Row(id, AdminSoftDelete(trips[id], clock))}, EmptyObj)
  /\ UNCHANGED <<nextId, drivers, vehicles, maintenances, ads, clock>>

(***************************************************************************)
(* POST /trips/:id/restore                                                 *)
(***************************************************************************)
\* a restore that forgets the role check
MayRestore_Anyone(u) == TRUE

MayRestore(u) == u.role = "admin"

\* a restore that leaves the name of the deleting driver
Restored_KeepsBy(trip) ==
  Assign(trip, [isDriverDeleted |-> FALSE, driverDeletedAt |-> NullDate])

Restored(trip) ==
  Assign(trip, [isDriverDeleted |-> FALSE, driverDeletedAt |-> NullDate,
                driverDeletedBy |-> Null])

RestoreTrip(u, id) ==
  /\ req' = Request("restore", u, id, EmptyObj, FALSE)
  /\ IF ~MayRestore(u)
     THEN /\ res' = Reply(403, "Admins only", {}, EmptyObj)
          /\ UNCHANGED trips
     ELSE IF id \notin DOMAIN trips
     THEN /\ res' = Reply(404, "Trip not found", {}, EmptyObj)
          /\ UNCHANGED trips
     ELSE /\ trips' = Save(id, Restored(trips[id]))
          /\ res' = Reply(200, "Trip restored", {Row(id, Restored(trips[id]))}, EmptyObj)
  /\ UNCHANGED <<nextId, drivers, vehicles, maintenances, ads, clock>>

(***************************************************************************)
(* The clock, the request bodies and the specification.                    *)
(***************************************************************************)
\* between requests: no request is being served
NoRequest == Request("none", [id |-> "a1", role |-> "admin"], 0, EmptyObj, FALSE)
NoReply == Reply(0, "", {}, EmptyObj)

\* time passes between two requests
Tick ==
  /\ clock < MaxClock
  /\ clock' = clock + 1
  /\ req' = NoRequest
  /\ res' = NoReply
  /\ UNCHANGED <<trips, nextId, drivers, vehicles, maintenances, ads>>

Bodies ==
  { [tripAmount |-> Num(1000)],
    [driverId |-> "d2", tripAmount |-> Num(1000)],
    [driverId |-> "d9", tripAmount |-> Num(1000), isDriverDeleted |-> TRUE],
    [vehicleId |-> "v9", tripAmount |-> Num(1000), isDriverDeleted |-> TRUE],
    [tripAmount |-> Num(1000), isDriverDeleted |-> TRUE] }

Init ==
  /\ trips = [i \in {} |-> EmptyObj]
  /\ nextId = 0
  /\ drivers = {"d1", "d2"}
  /\ vehicles = {"v1"}
  /\ maintenances = <<>>
  /\ ads = <<>>
  /\ clock = 1
  /\ req = NoRequest
  /\ res = NoReply

Next ==
  \/ \E u \in Users, body \in Bodies : PostTrip(u, body)
  \/ \E u \in Users : ListTrips(u)
  \/ \E u \in Users : GetStats(u)
  \/ \E u \in Users, id \in TripIds, includeDeleted \in BOOLEAN : GetTrip(u, id, includeDeleted)
  \/ \E u \in Users, id \in TripIds, body \in Bodies : PutTrip(u, id, body)
  \/ \E u \in Users, id \in TripIds, hard \in BOOLEAN : DeleteTrip(u, id, hard)
  \/ \E u \in Users, id \in TripIds : RestoreTrip(u, id)
  \/ Tick

Spec == Init /\ [][Next]_vars

(***************************************************************************)
(* The aggregation on its own: GET /trips/stats served on stores that hold *)
(* documents with the expense fields.                                      *)
(***************************************************************************)
NextStats == \E u \in Users : GetStats(u)

FuelAlphabet == {"0", "1", "5", " ", "l", "-"}

Text500 == <<"5", "0", "0">>

TextNote ==
  <<"2", " ", "l", "i", "t", "e", "r", "s", " ", "@", "1", "0", "0", " ",
    "p", "l", "u", "s", " ", "5", "0", " ", "t", "o", "l", "l", " ",
    "n", "o", "t", "e">>

\* the fuelAmount values enumerated: absent, numbers and every text up to
\* MaxLen characters, with the two texts of the documentation
FuelInputs ==
  {Undefined, Num(0), Num(500), Str(Text500), Str(TextNote)}
    \cup {Str(s) : s \in UNION {[1..n -> FuelAlphabet] : n \in 0..MaxLen}}

\* a store with one trip of driver d1 and the given fuelAmount
InitFuel ==
  /\ \E v \in FuelInputs :
        trips = (1 :> (IF v = Undefined THEN [driverId |-> "d1"]
                       ELSE [driverId |-> "d1", fuelAmount |-> v]))
  /\ nextId = 1
  /\ drivers = {"d1", "d2"}
  /\ vehicles = {"v1"}
  /\ maintenances = <<>>
  /\ ads = <<>>
  /\ clock = 1
  /\ req = NoRequest
  /\ res = NoReply

SpecFuel == InitFuel /\ [][NextStats]_vars

Text300 == <<"3", "0", "0">>
Text1x50 == <<"1", " ", "x", " ", "5", "0">>

TripA == [driverId |-> "d1", tripAmount |-> Num(1000), fuelAmount |-> Str(Text300),
          tolls |-> Num(0)]
TripB == [driverId |-> "d1", tripAmount |-> Num(2000), fuelAmount |-> Str(Text1x50),
          tolls |-> Num(20)]

\* the documents of the stores the aggregation is run on
StatDocs ==
  { TripA, TripB,
    Assign(TripB, [isDriverDeleted |-> TRUE]),
    Assign(TripA, [driverId |-> "d2"]),
    Assign(TripB, [parkingCharges |-> Num(5), driverBeta |-> Num(7)]),
    [driverId |-> "d1"] }

StatMaintenances ==
  { <<>>,
    <<[driver |-> "d1", maintenanceCost |-> Num(100)]>>,
    <<[driver |-> "d2", maintenanceCost |-> Num(40)],
      [driver |-> "d1", maintenanceCost |-> Num(100)]>> }

StatAds == { <<>>, <<[amount |-> Num(70)]>> }

InitStats ==
  /\ \E n \in 0..MaxStatTrips : trips \in [1..n -> StatDocs]
  /\ nextId = Cardinality(DOMAIN trips)
  /\ drivers = {"d1", "d2"}
  /\ vehicles = {"v1"}
  /\ maintenances \in StatMaintenances
  /\ ads \in StatAds
  /\ clock = 1
  /\ req = NoRequest
  /\ res = NoReply

SpecStats == InitStats /\ [][NextStats]_vars

(***************************************************************************)
(* Properties of the routes.                                               *)
(***************************************************************************)
\* a request was served in the step that led to this state
Served(op) == req.op = op

\* the ids of the documents a response carries
RowIds(r) == {row._id : row \in r.rows}

\* the store without its soft-deleted documents
Live(ts) == [i \in {j \in DOMAIN ts : ~IsDriverDeleted(ts[j])} |-> ts[i]]

\* the store without the documents of other drivers than d
OwnedBy(ts, d) == [i \in {j \in DOMAIN ts : String(ts[j], "driverId") = d} |-> ts[i]]

\* C1: every trip whose stored isDriverDeleted is true is absent from the rows
\* of GET /trips and is neither counted nor summed by GET /trips/stats, for
\* an admin and for a driver caller
C1_DeletedHidden ==
  /\ Served("list") =>
        \A i \in DOMAIN trips : IsDriverDeleted(trips[i]) => i \notin RowIds(res)
  /\ Served("stats") =>
        /\ res.stats.totalTrips <= Cardinality(DOMAIN Live(trips))
        /\ res.stats = ComputeStats(req.user, Live(trips), maintenances, ads)

C1_Witness ==
  /\ Served("stats")
  /\ req.user.role = "driver"
  /\ \E i \in DOMAIN trips :
        /\ IsDriverDeleted(trips[i])
        /\ String(trips[i], "driverId") = req.user.id
        /\ Field(trips[i], "tripAmount") = Num(1000)
  /\ res.stats.totalTrips = 0
  /\ res.stats.totalTripAmount = Num(0)

\* C2: a request of driver d neither returns, nor counts in its stats, nor
\* changes, nor removes a stored trip whose driverId is not d
C2_DriverIsolation ==
  [][ req'.op # "none" /\ req'.user.role = "driver" =>
        /\ \A i \in DOMAIN trips :
              String(trips[i], "driverId") # req'.user.id =>
                /\ i \in DOMAIN trips'
                /\ trips'[i] = trips[i]
                /\ i \notin RowIds(res')
        /\ req'.op = "stats" =>
              res'.stats = ComputeStats(req'.user, OwnedBy(trips, req'.user.id),
                                        maintenances, ads) ]_vars

C2_Witness ==
  /\ Served("update")
  /\ req.user.role = "driver"
  /\ req.id \in DOMAIN trips
  /\ String(trips[req.id], "driverId") = "d2"
  /\ res.status = 403

\* C3: get, update and delete of a driver on an existing trip of another
\* driver answer 404, as they do for an id that does not exist
C3_ForeignIsNotFound ==
  ( /\ req.op \in {"get", "update", "delete"}
    /\ req.user.role = "driver"
    /\ req.id \in DOMAIN trips
    /\ String(trips[req.id], "driverId") # req.user.id
    /\ res.status # 200 )
  => (res.status = 404 /\ res.message = "Trip not found")

\* C4: restore succeeds only for an admin; for any other caller it answers
\* 403 and leaves every trip as it was, whether or not the trip exists or is
\* soft-deleted
C4_RestoreAdminOnly ==
  [][ req'.op = "restore" =>
        /\ res'.status = 200 => req'.user.role = "admin"
        /\ req'.user.role # "admin" => (res'.status = 403 /\ trips' = trips) ]_vars

C4_Witness ==
  /\ Served("restore")
  /\ req.user.role = "driver"
  /\ req.id \in DOMAIN trips
  /\ String(trips[req.id], "driverId") = req.user.id
  /\ IsDriverDeleted(trips[req.id])
  /\ res.status = 403

\* C5: no request of a driver removes a trip; a driver's DELETE of their own
\* trip, with or without hard=true, leaves the document stored with
\* isDriverDeleted = true; only an admin DELETE with hard=true removes one
C5_DriverNeverRemoves ==
  [][ req'.op # "none" =>
        /\ req'.user.role = "driver" => DOMAIN trips \subseteq DOMAIN trips'
        /\ ( /\ req'.op = "delete"
             /\ req'.user.role = "driver"
             /\ req'.id \in DOMAIN trips
             /\ String(trips[req'.id], "driverId") = req'.user.id )
           => ( /\ res'.status = 200
                /\ req'.id \in DOMAIN trips'
                /\ IsDriverDeleted(trips'[req'.id]) )
        /\ ~(DOMAIN trips \subseteq DOMAIN trips')
           => (req'.op = "delete" /\ req'.user.role = "admin" /\ req'.flag) ]_vars

C5_Witness ==
  /\ Served("delete")
  /\ req.user.role = "driver"
  /\ req.flag
  /\ res.status = 200
  /\ req.id \in DOMAIN trips
  /\ IsDriverDeleted(trips[req.id])
  /\ trips[req.id].driverDeletedAt = clock

\* C6: a DELETE of the owning driver on a trip that is already soft-deleted
\* (the second of two calls in a row) answers 200 and leaves the trip as the
\* first call left it, driverDeletedAt and driverDeletedBy included; the
\* first call leaves it soft-deleted
C6_DriverDeleteIdempotent ==
  [][ ( /\ req'.op = "delete"
        /\ req'.user.role = "driver"
        /\ req'.id \in DOMAIN trips
        /\ String(trips[req'.id], "driverId") = req'.user.id )
      => /\ res'.status = 200
         /\ req'.id \in DOMAIN trips'
         /\ IsDriverDeleted(trips'[req'.id])
         /\ IsDriverDeleted(trips[req'.id]) => trips' = trips ]_vars

C6_Witness ==
  /\ Served("delete")
  /\ req.user.role = "driver"
  /\ res.status = 200
  /\ req.id \in DOMAIN trips
  /\ IsDriverDeleted(trips[req.id])
  /\ trips[req.id].driverDeletedBy = req.user.id
  /\ trips[req.id].driverDeletedAt # NullDate
  /\ trips[req.id].driverDeletedAt < clock

\* the write r, served on the store ts, hands attachRefs a driverId or a
\* vehicleId that is in no collection
LookupFails(r, ts) ==
  CASE r.op = "create" /\ r.user.role = "admin" ->
         \/ Has(r.body, "driverId") /\ r.body.driverId \notin drivers
         \/ Has(r.body, "vehicleId") /\ r.body.vehicleId \notin vehicles
    [] r.op = "create" /\ r.user.role = "driver" ->
         /\ Has(r.body, "vehicleId")
         /\ (r.body.vehicleId \notin vehicles \/ r.user.id \notin drivers)
    [] r.op = "update" ->
         /\ r.id \in DOMAIN ts
         /\ r.user.role = "driver" => String(ts[r.id], "driverId") = r.user.id
         /\ \/ Has(r.body, "driverId") /\ r.body.driverId \notin drivers
            \/ Has(r.body, "vehicleId") /\ r.body.vehicleId \notin vehicles
    [] OTHER -> FALSE

\* C7: a create or update whose reference lookup fails is answered with the
\* NotFound failure (as a 400) and leaves the trip store as it was, for an
\* admin and for a driver
C7_FailedLookupWritesNothing ==
  [][ LookupFails(req', trips) =>
        /\ res'.status = 400
        /\ res'.message = "NotFound"
        /\ trips' = trips
        /\ nextId' = nextId ]_vars

C7_Witness ==
  /\ Served("update")
  /\ req.user.role = "admin"
  /\ req.id \in DOMAIN trips
  /\ Has(req.body, "driverId")
  /\ req.body.driverId \notin drivers
  /\ req.body.isDriverDeleted = TRUE
  /\ ~IsDriverDeleted(trips[req.id])
  /\ res.status = 400

\* C8: after an update by the driver who created a trip, the stored driverId
\* is still that driver's id
C8_DriverIdImmutable ==
  ( /\ Served("update")
    /\ req.user.role = "driver"
    /\ res.status = 200
    /\ req.id \in DOMAIN trips
    /\ trips[req.id].createdByRole = "driver"
    /\ trips[req.id].createdBy = req.user.id )
  => String(trips[req.id], "driverId") = req.user.id

\* the value of the run of digits s[i..j]
RECURSIVE RunValue(_, _, _)
RunValue(s, i, j) ==
  IF i > j THEN 0 ELSE RunValue(s, i, j - 1) * 10 + DigitVal(s[j])

\* the maximal runs of digits of s, by their first and last position
MaximalRuns(s) ==
  { r \in (1..Len(s)) \X (1..Len(s)) :
      /\ r[1] <= r[2]
      /\ \A k \in r[1]..r[2] : s[k] \in Digits
      /\ r[1] = 1 \/ s[r[1] - 1] \notin Digits
      /\ r[2] = Len(s) \/ s[r[2] + 1] \notin Digits }

RECURSIVE SumRuns(_, _)
SumRuns(s, runs) ==
  IF runs = {} THEN 0
  ELSE LET r == CHOOSE x \in runs : TRUE
       IN RunValue(s, r[1], r[2]) + SumRuns(s, runs \ {r})

\* the fuel parsing policy
FuelPolicy(v) ==
  IF v = Undefined \/ v = Str(<<>>) THEN Num(0)
  ELSE IF ~isNaN(Number(v)) THEN Number(v)
  ELSE Num(SumRuns(v.s, MaximalRuns(v.s)))

\* C9: the fuel that stats uses for a trip is 0 for an absent or empty
\* fuelAmount, the number for a fuelAmount that parses as a number, and the
\* sum of the maximal runs of digits for any other text; "500" gives 500,
\* "2 liters @100 plus 50 toll note" gives 152 and undefined gives 0
C9_FuelPolicy ==
  Served("stats") =>
    LET fuelAmount == Field(trips[1], "fuelAmount") IN
      /\ res.stats.totalExpenses = FuelPolicy(fuelAmount)
      /\ fuelAmount = Str(Text500) => res.stats.totalExpenses = Num(500)
      /\ fuelAmount = Str(TextNote) => res.stats.totalExpenses = Num(152)
      /\ fuelAmount = Undefined => res.stats.totalExpenses = Num(0)

C9_Witness ==
  /\ Served("stats")
  /\ Field(trips[1], "fuelAmount") = Str(TextNote)
  /\ res.stats.totalExpenses = Num(152)

\* the trip has these facts and no other expense field
ScenarioTrip(trip, amount, fuel, tolls) ==
  /\ Field(trip, "tripAmount") = Num(amount)
  /\ Field(trip, "fuelAmount") = Str(fuel)
  /\ Field(trip, "tolls") = Num(tolls)
  /\ Field(trip, "parkingCharges") = Undefined
  /\ Field(trip, "driverBeta") = Undefined

\* exactly two trips are visible to the caller: 1000/"300"/0 and
\* 2000/"1 x 50"/20, and there are no maintenance or ad records
Scenario ==
  /\ Served("stats")
  /\ maintenances = <<>>
  /\ ads = <<>>
  /\ \E i, j \in DOMAIN trips :
        /\ i # j
        /\ {k \in DOMAIN trips :
              /\ ~IsDriverDeleted(trips[k])
              /\ req.user.role = "driver" => String(trips[k], "driverId") = req.user.id}
             = {i, j}
        /\ ScenarioTrip(trips[i], 1000, Text300, 0)
        /\ ScenarioTrip(trips[j], 2000, Text1x50, 20)

\* C10 as stated: in the scenario stats answers totalTripAmount 3000,
\* totalExpenses 370 (of which fuel 350) and totalProfit 2630
C10_StatsScenario ==
  Scenario =>
    /\ res.stats.totalTripAmount = Num(3000)
    /\ res.stats.totalExpenses = Num(370)
    /\ Sub(res.stats.totalExpenses, Num(20)) = Num(350)
    /\ res.stats.totalProfit = Num(2630)

\* C10 amended: "1 x 50" holds the runs 1 and 50, so in the scenario stats
\* answers totalTripAmount 3000, totalExpenses 371 (of which fuel 351) and
\* totalProfit 2629
C10_StatsScenarioAmended ==
  Scenario =>
    /\ res.stats.totalTrips = 2
    /\ res.stats.totalTripAmount = Num(3000)
    /\ res.stats.totalExpenses = Num(371)
    /\ Sub(res.stats.totalExpenses, Num(20)) = Num(351)
    /\ res.stats.totalProfit = Num(2629)

C10_Witness ==
  /\ Scenario
  /\ req.user.role = "driver"
  /\ res.stats.totalProfit = Num(2629)

\* the number a numeric field holds, 0 when the field is absent
Plain(v) == IF v.t = "num" THEN v.n ELSE 0

\* the ids of the trips caller u may see: not soft-deleted and, for a driver,
\* their own
VisibleTo(u) ==
  {i \in DOMAIN trips :
     /\ ~IsDriverDeleted(trips[i])
     /\ u.role = "driver" => String(trips[i], "driverId") = u.id}

\* fuel + tolls + parkingCharges + driverBeta of one trip
TripExpense(trip) ==
  FuelPolicy(Field(trip, "fuelAmount")).n + Plain(Field(trip, "tolls"))
    + Plain(Field(trip, "parkingCharges")) + Plain(Field(trip, "driverBeta"))

RECURSIVE ExpenseSum(_)
ExpenseSum(ids) ==
  IF ids = {} THEN 0
  ELSE LET i == CHOOSE j \in ids : TRUE
       IN TripExpense(trips[i]) + ExpenseSum(ids \ {i})

RECURSIVE AmountSum(_)
AmountSum(ids) ==
  IF ids = {} THEN 0
  ELSE LET i == CHOOSE j \in ids : TRUE
       IN Plain(Field(trips[i], "tripAmount")) + AmountSum(ids \ {i})

\* the sum of field f over the records that u is charged with
RECURSIVE ChargedSum(_, _, _)
ChargedSum(records, f, u) ==
  IF records = <<>> THEN 0
  ELSE (IF u.role = "driver" /\ "driver" \in DOMAIN Head(records)
             /\ Head(records).driver # u.id
        THEN 0 ELSE Plain(Field(Head(records), f)))
       + ChargedSum(Tail(records), f, u)

\* C11: totalTrips is the number of visible trips, totalExpenses the trips'
\* fuel + tolls + parkingCharges + driverBeta plus totalMaintenance plus
\* totalAds, totalProfit is totalTripAmount - totalExpenses; a driver is
\* charged their own maintenance records only, and every ad
C11_StatsTotals ==
  Served("stats") =>
    LET vis == VisibleTo(req.user)
        maint == ChargedSum(maintenances, "maintenanceCost", req.user)
        adsum == ChargedSum(ads, "amount", req.user)
    IN /\ res.stats.totalTrips = Cardinality(vis)
       /\ res.stats.totalTripAmount = Num(AmountSum(vis))
       /\ res.stats.totalMaintenance = Num(maint)
       /\ res.stats.totalAds = Num(adsum)
       /\ res.stats.totalExpenses = Num(ExpenseSum(vis) + maint + adsum)
       /\ res.stats.totalProfit = Num(AmountSum(vis) - (ExpenseSum(vis) + maint + adsum))

C11_Witness ==
  /\ Served("stats")
  /\ req.user.role = "driver"
  /\ Len(maintenances) = 2
  /\ Len(ads) = 1
  /\ Cardinality(VisibleTo(req.user)) = 2
  /\ res.stats.totalMaintenance = Num(100)
  /\ res.stats.totalAds = Num(70)
  /\ res.stats.totalProfit = Num(3000 - 371 - 170)

(***************************************************************************)
(* Creates and updates with bodies that supply the lifecycle, authorship   *)
(* and reference fields.                                                   *)
(***************************************************************************)
WriteBodies ==
  { [driverId |-> "d1", tripAmount |-> Num(1000)],
    [tripAmount |-> Num(2000), isDriverDeleted |-> TRUE, driverDeletedAt |-> 2,
     driverDeletedBy |-> "d2", createdBy |-> "d2", createdByRole |-> "admin"],
    [tolls |-> Num(20), isDriverDeleted |-> FALSE, driverDeletedAt |-> NullDate,
     driverDeletedBy |-> Null],
    [driverId |-> "d2", vehicleId |-> "v1", createdBy |-> "a1",
     createdByRole |-> "admin"],
    [vehicleId |-> "v9", tripAmount |-> Num(3000)] }

NextWrite ==
  \/ \E u \in Users, body \in WriteBodies : PostTrip(u, body)
  \/ \E u \in Users, id \in TripIds, body \in WriteBodies : PutTrip(u, id, body)

SpecWrite == Init /\ [][NextWrite]_vars

\* the lifecycle and authorship fields of a trip
ServerControlled ==
  {"isDriverDeleted", "driverDeletedAt", "driverDeletedBy", "createdBy",
   "createdByRole"}

\* C12: an update by a driver leaves isDriverDeleted, driverDeletedAt,
\* driverDeletedBy, createdBy and createdByRole of the trip as they were,
\* whatever the body supplies for them, and applies the other supplied fields
C12_DriverUpdateStrips ==
  [][(req'.op = "update" /\ req'.user.role = "driver") =>
       /\ DOMAIN trips' = DOMAIN trips
       /\ \A i \in DOMAIN trips :
            \A f \in ServerControlled :
              /\ (f \in DOMAIN trips'[i]) = (f \in DOMAIN trips[i])
              /\ f \in DOMAIN trips[i] => trips'[i][f] = trips[i][f]
       /\ res'.status = 200 =>
            \A f \in DOMAIN req'.body \ ServerControlled :
              trips'[req'.id][f] = req'.body[f]]_vars

\* a driver's update whose body forges the five fields has been applied to a
\* trip that holds other values for them
C12_Witness ==
  /\ Served("update")
  /\ req.user.role = "driver"
  /\ res.status = 200
  /\ {"isDriverDeleted", "driverDeletedBy", "createdBy", "tripAmount"} \subseteq DOMAIN req.body
  /\ trips[req.id].tripAmount = req.body.tripAmount
  /\ trips[req.id].createdBy # req.body.createdBy
  /\ trips[req.id].isDriverDeleted # req.body.isDriverDeleted
  /\ trips[req.id].driverDeletedBy # req.body.driverDeletedBy

\* id i was given to a trip that the store no longer holds: ids are handed
\* out in order and only Trip.findByIdAndDelete takes a document away
HardDeleted(i) == i \in 1..nextId /\ i \notin DOMAIN trips

\* the step is an admin DELETE with hard=true on a stored trip
HardDeletes(i) ==
  /\ req'.op = "delete" /\ req'.id = i /\ req'.flag
  /\ req'.user.role = "admin"
  /\ i \in DOMAIN trips

ByIdOps == {"get", "update", "delete", "restore"}

AdminOnly(u) == u.role = "admin"

\* the id of a new Driver document: one that no document and no trip holds
NewDriverIds ==
  {"d3"} \ (drivers \cup {String(trips[i], "driverId") : i \in DOMAIN trips})

\* POST /drivers
CreateDriver(u) ==
  /\ req' = Request("createDriver", u, 0, EmptyObj, FALSE)
  /\ IF ~AdminOnly(u)
     THEN /\ res' = Reply(403, "Admins only", {}, EmptyObj)
          /\ UNCHANGED drivers
     ELSE \E d \in NewDriverIds :
            /\ drivers' = drivers \cup {d}
            /\ res' = Reply(201, d, {}, EmptyObj)
  /\ UNCHANGED <<trips, nextId, vehicles, maintenances, ads, clock>>

\* PUT /drivers/:id: name, email, phone, password and isActive are assigned,
\* the id and the trips are not touched
UpdateDriver(u, d) ==
  /\ req' = Request("updateDriver", u, 0, [driverId |-> d], FALSE)
  /\ res' = IF ~AdminOnly(u) THEN Reply(403, "Admins only", {}, EmptyObj)
            ELSE IF d \notin drivers THEN Reply(404, "Driver not found", {}, EmptyObj)
            ELSE Reply(200, d, {}, EmptyObj)
  /\ UNCHANGED <<trips, nextId, drivers, vehicles, maintenances, ads, clock>>

\* DELETE /drivers/:id
DeleteDriver(u, d) ==
  /\ req' = Request("deleteDriver", u, 0, [driverId |-> d], FALSE)
  /\ IF ~AdminOnly(u)
     THEN /\ res' = Reply(403, "Admins only", {}, EmptyObj)
          /\ UNCHANGED drivers
     ELSE IF d \notin drivers
     THEN /\ res' = Reply(404, "Driver not found", {}, EmptyObj)
          /\ UNCHANGED drivers
     ELSE /\ drivers' = drivers \ {d}
          /\ res' = Reply(200, "Driver deleted", {}, EmptyObj)
  /\ UNCHANGED <<trips, nextId, vehicles, maintenances, ads, clock>>

DriverIds == {"d1", "d2", "d3"}

DriverBodies ==
  { [tripAmount |-> Num(1000)],
    [driverId |-> "d2", tripAmount |-> Num(1000)],
    [driverId |-> "d3", tripAmount |-> Num(1000)],
    [driverId |-> "d1", vehicleId |-> "v1"] }

NextDrivers ==
  \/ \E u \in Users, body \in DriverBodies : PostTrip(u, body)
  \/ \E u \in Users, id \in TripIds, body \in DriverBodies : PutTrip(u, id, body)
  \/ \E u \in Users : CreateDriver(u)
  \/ \E u \in Users, d \in DriverIds : UpdateDriver(u, d)
  \/ \E u \in Users, d \in DriverIds : DeleteDriver(u, d)

SpecDrivers == Init /\ [][NextDrivers]_vars

\* C14: every stored trip that has a driverId has the id of a Driver record
\* that is in the store
C14_NoDanglingDriver ==
  \A i \in DOMAIN trips :
    Has(trips[i], "driverId") => trips[i].driverId \in drivers

(***************************************************************************)
(* The aggregation on documents whose amount fields hold text.             *)
(***************************************************************************)
TextNA == <<"n", "a">>
Text20 == <<"2", "0">>

TextDocs ==
  { TripA,
    [driverId |-> "d1", tripAmount |-> Num(2000), tolls |-> Str(TextNA)],
    [driverId |-> "d1", tripAmount |-> Str(TextNA), tolls |-> Num(20)],
    [driverId |-> "d1", tripAmount |-> Num(500), parkingCharges |-> Str(<<>>),
     driverBeta |-> Str(Text20)],
    [driverId |-> "d1", tripAmount |-> Num(500), driverBeta |-> Str(TextNA)],
    [driverId |-> "d2", tripAmount |-> Num(1000), parkingCharges |-> Str(TextNA)] }

InitStatsText ==
  /\ \E n \in 0..MaxStatTrips : trips \in [1..n -> TextDocs]
  /\ nextId = Cardinality(DOMAIN trips)
  /\ drivers = {"d1", "d2"}
  /\ vehicles = {"v1"}
  /\ maintenances = <<>>
  /\ ads = <<>>
  /\ clock = 1
  /\ req = NoRequest
  /\ res = NoReply

SpecStatsText == InitStatsText /\ [][NextStats]_vars

\* the number a field contributes when absent and non-numeric values count 0
Lenient(v) ==
  IF isNaN(Number(OrZero(v))) THEN 0 ELSE Number(OrZero(v)).n

RECURSIVE LenientAmountSum(_)
LenientAmountSum(ids) ==
  IF ids = {} THEN 0
  ELSE LET i == CHOOSE j \in ids : TRUE
       IN Lenient(Field(trips[i], "tripAmount")) + LenientAmountSum(ids \ {i})

RECURSIVE LenientExpenseSum(_)
LenientExpenseSum(ids) ==
  IF ids = {} THEN 0
  ELSE LET i == CHOOSE j \in ids : TRUE
       IN FuelPolicy(Field(trips[i], "fuelAmount")).n
            + Lenient(Field(trips[i], "tolls"))
            + Lenient(Field(trips[i], "parkingCharges"))
            + Lenient(Field(trips[i], "driverBeta"))
            + LenientExpenseSum(ids \ {i})

\* C15: tolls, parkingCharges, driverBeta and tripAmount count 0 when absent
\* or non-numeric, so the totals are always numbers and a trip with a
\* non-numeric field leaves the contribution of the other trips as it is
C15_NonNumericCountsZero ==
  Served("stats") =>
    LET vis == VisibleTo(req.user)
    IN /\ res.stats.totalTripAmount = Num(LenientAmountSum(vis))
       /\ res.stats.totalExpenses = Num(LenientExpenseSum(vis))
       /\ res.stats.totalProfit = Num(LenientAmountSum(vis) - LenientExpenseSum(vis))

\* the step serves a DELETE that leaves trip i in the store
SoftDeletes(i) ==
  /\ req'.op = "delete" /\ req'.id = i /\ res'.status = 200
  /\ i \in DOMAIN trips /\ i \in DOMAIN trips'

\* C16: the Active -> DriverDeleted transition records driverDeletedAt and,
\* when a driver performed it, driverDeletedBy = that driver's id; an admin
\* soft delete leaves driverDeletedBy alone; a delete of a trip that is
\* already soft-deleted leaves driverDeletedAt and driverDeletedBy alone; so a
\* non-null driverDeletedBy belongs to a soft-deleted trip and was written by
\* the driver's delete that last took the trip out of Active
C16_DeletedByIsTheDriver ==
  /\ [](\A i \in DOMAIN trips :
          trips[i].driverDeletedBy # Null =>
            /\ IsDriverDeleted(trips[i])
            /\ \E u \in Users : u.role = "driver" /\ u.id = trips[i].driverDeletedBy)
  /\ [][\A i \in TripIds :
          /\ SoftDeletes(i) =>
               IF IsDriverDeleted(trips[i])
               THEN /\ trips'[i].driverDeletedAt = trips[i].driverDeletedAt
                    /\ trips'[i].driverDeletedBy = trips[i].driverDeletedBy
               ELSE /\ IsDriverDeleted(trips'[i])
                    /\ trips'[i].driverDeletedAt = clock
                    /\ trips'[i].driverDeletedBy =
                         IF req'.user.role = "driver" THEN req'.user.id
                         ELSE trips[i].driverDeletedBy
          /\ (/\ i \in DOMAIN trips /\ i \in DOMAIN trips'
              /\ trips'[i].driverDeletedBy # trips[i].driverDeletedBy) =>
               \/ /\ SoftDeletes(i) /\ req'.user.role = "driver"
                  /\ ~IsDriverDeleted(trips[i])
                  /\ trips'[i].driverDeletedBy = req'.user.id
               \/ /\ req'.op = "restore" /\ req'.id = i
                  /\ trips'[i].driverDeletedBy = Null
                  /\ ~IsDriverDeleted(trips'[i])]_vars

\* a driver has asked to delete their trip after an admin soft-deleted it at
\* an earlier time
C16_Witness ==
  /\ Served("delete")
  /\ req.user.role = "driver"
  /\ res.status = 200
  /\ req.id \in DOMAIN trips
  /\ IsDriverDeleted(trips[req.id])
  /\ trips[req.id].driverDeletedBy = Null
  /\ trips[req.id].driverDeletedAt # NullDate
  /\ trips[req.id].driverDeletedAt < clock

\* C17: get-by-id of a soft-deleted trip answers 404 to the owning driver
\* unless includeDeleted=true is sent, and then returns the trip; an admin is
\* given the trip in both cases; get-by-id changes no stored field
C17_GetSoftDeleted ==
  [][req'.op = "get" =>
       /\ trips' = trips
       /\ (req'.id \in DOMAIN trips /\ IsDriverDeleted(trips[req'.id])) =>
            LET trip == trips[req'.id]
                found == /\ res'.status = 200
                         /\ res'.rows = {Row(req'.id, trip)}
                hidden == res'.status = 404 /\ res'.rows = {}
            IN /\ req'.user.role = "admin" => found
               /\ (req'.user.role = "driver"
                     /\ String(trip, "driverId") = req'.user.id) =>
                    IF req'.flag THEN found ELSE hidden]_vars

\* the owning driver has read their soft-deleted trip with includeDeleted=true
C17_Witness ==
  /\ Served("get")
  /\ req.user.role = "driver"
  /\ req.flag
  /\ req.id \in DOMAIN trips
  /\ IsDriverDeleted(trips[req.id])
  /\ res.status = 200
  /\ res.rows = {Row(req.id, trips[req.id])}

\* C18: a trip created by a driver has driverId and createdBy equal to the
\* caller's id and createdByRole = driver whatever the body supplies, and
\* carries no driverName or driverNumber snapshot: with a vehicleId only the
\* vehicle's snapshot is attached
C18_DriverCreateNoOwnSnapshot ==
  (Served("create") /\ req.user.role = "driver" /\ res.status = 201) =>
    \A row \in res.rows :
      /\ row.doc.driverId = req.user.id
      /\ row.doc.createdBy = req.user.id
      /\ row.doc.createdByRole = "driver"
      /\ "driverName" \notin DOMAIN row.doc
      /\ "driverNumber" \notin DOMAIN row.doc
      /\ Has(req.body, "vehicleId") => "vehicleType" \in DOMAIN row.doc

\* the trip with its three lifecycle fields as they are on an Active trip
Cleared(trip) ==
  [trip EXCEPT !.isDriverDeleted = FALSE, !.driverDeletedAt = NullDate,
               !.driverDeletedBy = Null]

\* the step serves an admin restore of the stored trip i
Restores(i) ==
  /\ req'.op = "restore" /\ req'.id = i /\ res'.status = 200
  /\ i \in DOMAIN trips

Procs == {1, 2}

\* trip.save() has no condition on what the store holds now
SaveRejected_Versioned(loaded, stored) == loaded # stored

SaveRejected(loaded, stored) == FALSE

\* the paths of a loaded document that were assigned another value
Modified(loaded, doc) ==
  [f \in {g \in DOMAIN doc : g \notin DOMAIN loaded \/ doc[g] # loaded[g]} |-> doc[f]]

\* what trip.save() leaves in the store: the document of the handler, or the
\* stored document with the modified paths set
Written(whole, loaded, doc, stored) ==
  IF whole THEN doc ELSE Assign(stored, Modified(loaded, doc))

ConcRequest(op, u, body, flag) ==
  [op |-> op, user |-> u, id |-> 1, body |-> body, flag |-> flag,
   pc |-> "start", doc |-> EmptyObj, rank |-> 0]

\* the document handler p holds before its save
Local(r) ==
  IF r.op = "update" THEN UpdateResult(r.user, r.doc, r.body).trip
  ELSE IF r.op = "restore" THEN Restored(r.doc)
  ELSE IF r.user.role = "driver" THEN DriverDelete(r.user, r.doc, clock)
  ELSE AdminSoftDelete(r.doc, clock)

\* the status of the catch block of each handler
CatchStatus(op) == IF op = "update" THEN 400 ELSE 500

Finish(p, reply) ==
  /\ req' = [req EXCEPT ![p].pc = "done"]
  /\ res' = [res EXCEPT ![p] = reply]
  /\ UNCHANGED trips

\* from the start of the handler to its save: the role test of restore,
\* findById, the ownership test and attachRefs
ConcFind(p) ==
  LET r == req[p]
  IN /\ r.pc = "start"
     /\ IF r.op = "restore" /\ ~MayRestore(r.user)
        THEN Finish(p, Reply(403, "Admins only", {}, EmptyObj))
        ELSE IF r.id \notin DOMAIN trips
        THEN Finish(p, Reply(404, "Trip not found", {}, EmptyObj))
        ELSE IF r.op # "restore" /\ Foreign(r.user, trips[r.id])
        THEN Finish(p, Reply(403, "Forbidden", {}, EmptyObj))
        ELSE IF r.op = "update" /\ UpdateResult(r.user, trips[r.id], r.body).threw
        THEN Finish(p, Reply(400, "NotFound", {}, EmptyObj))
        ELSE IF r.op = "delete" /\ r.user.role = "driver" /\ IsDriverDeleted(trips[r.id])
        THEN Finish(p, Reply(200, "Trip marked deleted by driver",
                             {Row(r.id, trips[r.id])}, EmptyObj))
        ELSE /\ req' = [req EXCEPT ![p].pc = "found", ![p].doc = trips[r.id]]
             /\ UNCHANGED <<res, trips>>
     /\ UNCHANGED <<nextId, drivers, vehicles, maintenances, ads, clock>>

\* the save, or findByIdAndDelete, and the reply
ConcWrite(p) ==
  LET r == req[p]
      rank == 1 + Cardinality({q \in Procs : req[q].rank > 0})
  IN /\ r.pc = "found"
     /\ req' = [req EXCEPT ![p].pc = "done", ![p].rank = rank]
     /\ IF r.op = "delete" /\ IsHardDelete(r.user, r.flag)
        THEN /\ trips' = Remove(r.id)
             /\ res' = [res EXCEPT ![p] =
                          Reply(200, "Trip permanently deleted by admin", {}, EmptyObj)]
        ELSE IF r.id \notin DOMAIN trips
        THEN \* the document was removed meanwhile: save() throws
             \* DocumentNotFoundError or, in older releases, does nothing
             /\ UNCHANGED trips
             /\ \E throws \in BOOLEAN :
                  res' = [res EXCEPT ![p] =
                            IF throws
                            THEN Reply(CatchStatus(r.op), "DocumentNotFoundError", {}, EmptyObj)
                            ELSE Reply(200, "", {Row(r.id, Local(r))}, EmptyObj)]
        ELSE IF SaveRejected(r.doc, trips[r.id])
        THEN /\ UNCHANGED trips
             /\ res' = [res EXCEPT ![p] =
                          Reply(CatchStatus(r.op), "VersionError", {}, EmptyObj)]
        ELSE /\ \E whole \in BOOLEAN :
                  trips' = Save(r.id, Written(whole, r.doc, Local(r), trips[r.id]))
             /\ res' = [res EXCEPT ![p] = Reply(200, "", {Row(r.id, Local(r))}, EmptyObj)]
     /\ UNCHANGED <<nextId, drivers, vehicles, maintenances, ads, clock>>


ConcActive ==
  NewTrip([driverId |-> "d1", createdBy |-> "d1", createdByRole |-> "driver",
           tripAmount |-> Num(1000)])

\* the trip the two requests are about: Active, or soft-deleted by its driver
ConcDocs ==
  { ConcActive,
    DriverDelete([id |-> "d1", role |-> "driver"], ConcActive, 1) }

ConcRequests ==
  {ConcRequest("update", u, body, FALSE) :
     u \in Users, body \in {[tripAmount |-> Num(2000)], [tolls |-> Num(20)]}}
    \cup {ConcRequest("update", [id |-> "a1", role |-> "admin"], body, FALSE) :
            body \in {[driverId |-> "d2"], [vehicleId |-> "v9"]}}
    \cup {ConcRequest("delete", u, EmptyObj, hard) : u \in Users, hard \in BOOLEAN}
    \cup {ConcRequest("restore", u, EmptyObj, FALSE) : u \in Users}

InitConc ==
  /\ trips \in {1 :> d : d \in ConcDocs}
  /\ nextId = 1
  /\ drivers = {"d1", "d2"}
  /\ vehicles = {"v1"}
  /\ maintenances = <<>>
  /\ ads = <<>>
  /\ clock = 2
  /\ req \in [Procs -> ConcRequests]
  /\ res = [p \in Procs |-> NoReply]

NextConc ==
  \/ \E p \in Procs : ConcFind(p)
  \/ \E p \in Procs : ConcWrite(p)

SpecConc == InitConc /\ [][NextConc]_vars


\* handler p can take its next step
Moves(p) == ConcFind(p) \/ ConcWrite(p)

AllDone == \A p \in Procs : req[p].pc = "done"

\* the handlers whose write reached the store last
LastSaver ==
  {p \in Procs : req[p].rank > 0 /\ \A q \in Procs : req[q].rank <= req[p].rank}

\* the document handler p sent back
ReplyDoc(p) == CHOOSE d \in {row.doc : row \in res[p].rows} : TRUE

\* C20: under every interleaving of two update/delete/restore requests on one
\* trip no request is blocked by the other, both report success, and the
\* stored trip after both is the result of the write that saved last
C20_LastWriterWins ==
  /\ \A p \in Procs : req[p].pc # "done" => ENABLED Moves(p)
  /\ AllDone =>
       /\ \A p \in Procs : res[p].status = 200
       /\ \A p \in LastSaver :
            IF req[p].op = "delete" /\ req[p].user.role = "admin" /\ req[p].flag
            THEN 1 \notin DOMAIN trips
            ELSE /\ 1 \in DOMAIN trips
                 /\ res[p].rows = {Row(1, trips[1])}

\* a request that is permitted to its caller, resolves its references, does
\* not remove the trip and does not name a driver for it
Eligible(r) ==
  /\ r.op = "restore" => r.user.role = "admin"
  /\ r.op = "delete" => ~r.flag
  /\ r.op = "update" =>
       /\ "driverId" \notin DOMAIN r.body
       /\ "vehicleId" \in DOMAIN r.body => r.body.vehicleId \in vehicles

\* C20 for two requests that are permitted, do not remove the trip and do not
\* reassign it: no request is blocked, both report success, and every field
\* that the write which saved last changed holds the value of that write
C20_LastWriterWinsAmended ==
  /\ \A p \in Procs : req[p].pc # "done" => ENABLED Moves(p)
  /\ (AllDone /\ \A p \in Procs : Eligible(req[p])) =>
       /\ \A p \in Procs : res[p].status = 200
       /\ 1 \in DOMAIN trips
       /\ \A p \in LastSaver :
            \A f \in DOMAIN ReplyDoc(p) :
              (f \notin DOMAIN req[p].doc \/ ReplyDoc(p)[f] # req[p].doc[f]) =>
                trips[1][f] = ReplyDoc(p)[f]

\* both handlers read the same document, the admin's update of tripAmount
\* was saved first and reported success, the driver's delete was saved last,
\* and the stored trip has the old tripAmount
C20_Witness ==
  /\ AllDone
  /\ \A p \in Procs : Eligible(req[p]) /\ res[p].status = 200
  /\ req[1].op = "update" /\ req[1].body = [tripAmount |-> Num(2000)]
  /\ req[2].op = "delete" /\ req[2].user.role = "driver"
  /\ req[1].rank = 1 /\ req[2].rank = 2
  /\ req[1].doc = req[2].doc
  /\ IsDriverDeleted(trips[1])
  /\ trips[1].tripAmount = Num(1000)


\* C21: every stored trip has isDriverDeleted = true exactly when
\* driverDeletedAt is non-null, a non-null driverDeletedBy only when
\* isDriverDeleted = true, and is Active right after its create
C21_LifecycleConsistent ==
  /\ \A i \in DOMAIN trips :
       /\ IsDriverDeleted(trips[i]) <=> trips[i].driverDeletedAt # NullDate
       /\ trips[i].driverDeletedBy # Null => IsDriverDeleted(trips[i])
  /\ (Served("create") /\ res.status = 201) =>
       \A row \in res.rows : ~IsDriverDeleted(row.doc)

====
